---- MODULE Spec2Model ----
(***************************************************************************)
(* Wild-Fire-Detection backend: the satellite monitoring orchestrator      *)
(* (backend/monitoring_service.py), its HTTP entry points (backend/main.py)*)
(* and the streaming alert path (backend/yolo_service.py).                 *)
(*                                                                         *)
(* Every thread of the process (HTTP worker threads, the scheduler's job   *)
(* thread, the streaming sender threads) is a process of the model; one    *)
(* action is one statement, or one run of statements that touches no       *)
(* shared state in between.  Confidences are percentages (0.70 is 70).     *)
(***************************************************************************)
EXTENDS Integers, Sequences, FiniteSets, TLC

\* ------------------------------------------------------------------------
\* Program constants
\* ------------------------------------------------------------------------
HISTORY_CAP == 100
DEFAULT_INTERVAL_HOURS == 6
DEFAULT_THRESHOLD == 70
HIGH_CONFIDENCE == 85
ALERT_COOLDOWN == 30

\* ------------------------------------------------------------------------
\* Bounds of the model
\* ------------------------------------------------------------------------
NumZones == 2
MaxCycles == 2
MaxScheds == 2
MaxHistCycles == 105
MaxTime == 31
MaxAlerts == 2
MaxLimit == 3

Callers == {"http1", "http2"}
Workers == {"job"}
Threads == Callers \cup Workers
Intervals == {1, 6}
Zones == 1..NumZones

Max(a, b) == IF a >= b THEN a ELSE b
Min(a, b) == IF a <= b THEN a ELSE b

VARIABLES
    SCHEDULER_AVAILABLE,   \* module flag, monitoring_service.py:17/19
    detection_model,       \* TRUE iff the CAM model loaded (is not None)
    sentinel_available,    \* sentinel_service.is_available()
    scheduler,             \* self.scheduler: id of a scheduler object, 0 is None
    scheds,                \* the BackgroundScheduler objects created so far
    is_running,            \* self.is_running
    scan_interval_hours,   \* self.scan_interval_hours
    detection_threshold,   \* self.detection_threshold
    detection_history,     \* self.detection_history
    lock,                  \* self.lock: its holder, or "free"
    pc,                    \* per thread: the statement it is about to run
    op,                    \* per thread: the entry point it is serving
    results,               \* per thread: run_full_scan's local list
    zi,                    \* per thread: index of the zone the loop is at
    ret,                   \* per thread: what its last call returned
    cycles,                \* number of run_full_scan calls begun
    stamp,                 \* per thread: the timestamp of the record its
                           \* cycle appended, 0 before the append
    appends,               \* number of records appended to the history
    now,                   \* the wall clock, in seconds
    calls,                 \* per thread: collaborator calls of its cycle
    last_dispatch,         \* time an alert was last sent to a notifier, or -1
    burst,                 \* an alert was sent within the cooldown of another
    survivor,              \* per thread: its cycle was in its loop when a
                           \* stop shut the scheduler down
    halted,                \* a stop has returned success and no start has
                           \* returned success since
    opened,                \* a start has returned success and no stop has
                           \* returned success since
    seen,                  \* per thread: the history length its reader saw
    limit,                 \* per thread: the limit given to get_history
    history_reply,         \* per thread: the list get_history returned
    status_reply,          \* per thread: the dict get_status is building
    asked,                 \* per thread: the body of its start request
    classifier_out,        \* what detection_model.predict gives predict_fire
    predicted,             \* the dict that predict_fire call returned
    telegram_configured,   \* BOT_TOKEN and CHAT_ID are set
    last_alert_time,       \* YoloService.last_alert_time
    senders,               \* the _send threads started, in start order
    last_post,             \* time of the last Telegram post that succeeded
    double_alert           \* two posts succeeded less than the cooldown apart

vars == <<SCHEDULER_AVAILABLE, detection_model, sentinel_available, scheduler,
          scheds, is_running, scan_interval_hours, detection_threshold,
          detection_history, lock, pc, op, results, zi, ret, cycles, stamp,
          appends, now, calls, last_dispatch, burst, survivor, halted, opened,
          seen, limit, history_reply, status_reply, asked, classifier_out,
          predicted,
          telegram_configured,
          last_alert_time, senders, last_post, double_alert>>

envVars == <<SCHEDULER_AVAILABLE, detection_model, sentinel_available>>
schedVars == <<scheduler, scheds, is_running, scan_interval_hours,
               detection_threshold>>
histVars == <<detection_history, lock, appends>>
ghostVars == <<survivor, halted, opened>>
streamVars == <<telegram_configured, last_alert_time, senders, last_post,
                double_alert>>
scanVars == <<results, zi, calls, cycles, stamp>>
alertVars == <<now, last_dispatch, burst>>
readVars == <<seen, limit, history_reply, status_reply>>
predVars == <<classifier_out, predicted>>

\* ------------------------------------------------------------------------
\* Pure functions
\* ------------------------------------------------------------------------

\* Python's s[start:] for a list s and an integer start of either sign.
PySliceFrom(s, start) ==
    LET n == Len(s)
        lo == IF start < 0 THEN Max(n + start, 0) ELSE Min(start, n)
    IN  SubSeq(s, lo + 1, n)

\* np.argmax over a vector: the first index (0-based) of the largest score.
ArgMax(v) ==
    CHOOSE i \in 0..(Len(v) - 1) :
        /\ \A j \in 0..(Len(v) - 1) : v[j + 1] <= v[i + 1]
        /\ \A j \in 0..(i - 1) : v[j + 1] < v[i + 1]

\* CLASS_NAMES.get(class_idx, "Unknown")
ClassName(idx) ==
    IF idx = 0 THEN "No Fire" ELSE IF idx = 1 THEN "Fire" ELSE "Unknown"

\* What detection_model.predict returns for a batch of one image: a single
\* array (a batch holding one score vector) or a list of arrays.
SingleOutput(v) == [raises |-> FALSE, list |-> FALSE, arrays |-> << <<v>> >>]
DualOutput(cam, v) ==
    [raises |-> FALSE, list |-> TRUE, arrays |-> << <<cam>>, <<v>> >>]
RaisingOutput == [raises |-> TRUE, list |-> FALSE, arrays |-> << >>]
\* predict has not been called.
NoOutput == [raises |-> FALSE, list |-> FALSE, arrays |-> << >>]

ScoreVectors == { <<90, 10>>, <<35, 65>>, <<30, 70>> }
CamVector == <<1, 99>>

PredictionError == [error |-> TRUE, prediction |-> "", confidence |-> 0,
                    is_fire |-> FALSE]

\* No predict_fire call has returned.
NoPrediction == [error |-> FALSE, prediction |-> "", confidence |-> 0,
                 is_fire |-> FALSE]

\* predict_fire taking the first array of the classifier's output.
PredictFire_FirstArray(model_loaded, out) ==
    IF ~model_loaded THEN PredictionError
    ELSE IF out.raises THEN PredictionError
    ELSE LET classification == out.arrays[1]
             class_idx == ArgMax(classification[1])
             confidence == classification[1][class_idx + 1]
         IN  IF Len(classification[1]) < 2 THEN PredictionError
             ELSE [error |-> FALSE, prediction |-> ClassName(class_idx),
                   confidence |-> confidence,
                   is_fire |-> ClassName(class_idx) = "Fire"]

\* MonitoringService.predict_fire; out.raises when predict or the
\* preprocessing throws.
PredictFire(model_loaded, out) ==
    IF ~model_loaded THEN PredictionError
    ELSE IF out.raises THEN PredictionError
    ELSE LET classification ==
                 IF out.list /\ Len(out.arrays) = 2 THEN out.arrays[2]
                 ELSE out.arrays[1]
             class_idx == ArgMax(classification[1])
             confidence == classification[1][class_idx + 1]
         IN  IF Len(classification[1]) < 2 THEN PredictionError
             ELSE [error |-> FALSE, prediction |-> ClassName(class_idx),
                   confidence |-> confidence,
                   is_fire |-> ClassName(class_idx) = "Fire"]

ErrorEntry(z, e) ==
    [zone |-> z, error |-> e, prediction |-> "", confidence |-> 0,
     is_fire |-> FALSE, enriched |-> FALSE]

\* MonitoringService.scan_zone_for_fire for a zone outcome o that does not
\* raise: o.sat is what sentinel_service.scan_zone returned.
ScanZoneForFire(z, o, model_loaded) ==
    IF o.sat = "error" THEN ErrorEntry(z, "acquisition")
    ELSE IF o.sat = "none" THEN ErrorEntry(z, "No image data received")
    ELSE LET prediction == PredictFire(model_loaded, o.out)
         IN  IF prediction.error THEN ErrorEntry(z, "classification")
             ELSE [zone |-> z, error |-> "",
                   prediction |-> prediction.prediction,
                   confidence |-> prediction.confidence,
                   is_fire |-> prediction.is_fire, enriched |-> FALSE]

\* The gate letting a result through only strictly above the threshold.
Qualifies_StrictlyAbove(r, threshold) == r.is_fire /\ r.confidence > threshold

\* The detection gate of run_full_scan, line 188.
Qualifies(r, threshold) == r.is_fire /\ r.confidence >= threshold

Event(kind, z) == [kind |-> kind, zone |-> z]

\* _handle_detection sending the Telegram alert before the estimate.
HandleDetection_AlertBeforeEnrich(z, o) ==
    LET ev(k) == Event(k, z)
        entered == << ev("dispatch") >>
        mailed == IF o.email = "off" THEN entered
                  ELSE Append(entered, ev("email"))
    IN  IF o.email = "raise"
        THEN [calls |-> mailed, enriched |-> FALSE, raised |-> TRUE]
        ELSE LET tg == Append(mailed, ev("telegram"))
                 sent == IF o.tg = "off" THEN tg ELSE Append(tg, ev("post"))
             IN  IF o.spread = "raise"
                 THEN [calls |-> Append(sent, ev("spread")),
                       enriched |-> FALSE, raised |-> TRUE]
                 ELSE [calls |-> Append(Append(sent, ev("spread")),
                                        ev("enrich")),
                       enriched |-> TRUE, raised |-> FALSE]

\* MonitoringService._handle_detection and _send_telegram_alert on the result
\* just appended: the collaborator calls made, whether the result dict was
\* enriched in place, and whether an exception escaped.
HandleDetection(z, o) ==
    LET ev(k) == Event(k, z)
        entered == << ev("dispatch") >>
        mailed == IF o.email = "off" THEN entered
                  ELSE Append(entered, ev("email"))
    IN  IF o.email = "raise"
        THEN [calls |-> mailed, enriched |-> FALSE, raised |-> TRUE]
        ELSE IF o.spread = "raise"
        THEN [calls |-> Append(mailed, ev("spread")), enriched |-> FALSE,
              raised |-> TRUE]
        ELSE LET est == Append(Append(mailed, ev("spread")), ev("enrich"))
                 tg == Append(est, ev("telegram"))
             IN  [calls |-> IF o.tg = "off" THEN tg
                            ELSE Append(tg, ev("post")),
                  enriched |-> TRUE, raised |-> FALSE]

\* The loop body handing over the previous zone's detection instead of
\* the one it has just classified.
LoopBody_DispatchPrevious(res, z, o, model_loaded, threshold) ==
    IF o.sat = "raise"
    THEN [results |-> Append(res, ErrorEntry(z, "exception")),
          calls |-> << >>, dispatched |-> FALSE]
    ELSE LET r == ScanZoneForFire(z, o, model_loaded)
             res1 == Append(res, r)
         IN  IF res # << >> /\ Qualifies(res[Len(res)], threshold)
             THEN [results |-> res1,
                   calls |-> HandleDetection(res[Len(res)].zone, o).calls,
                   dispatched |-> TRUE]
             ELSE [results |-> res1, calls |-> << >>, dispatched |-> FALSE]

\* One iteration of the for loop of run_full_scan (lines 182-195) on zone z.
LoopBody(res, z, o, model_loaded, threshold) ==
    IF o.sat = "raise"
    THEN [results |-> Append(res, ErrorEntry(z, "exception")),
          calls |-> << >>, dispatched |-> FALSE]
    ELSE LET r == ScanZoneForFire(z, o, model_loaded)
             res1 == Append(res, r)
         IN  IF Qualifies(r, threshold)
             THEN LET h == HandleDetection(z, o)
                      res2 == Append(res, [r EXCEPT !.enriched = h.enriched])
                  IN  [results |-> IF h.raised
                                   THEN Append(res2, ErrorEntry(z, "exception"))
                                   ELSE res2,
                       calls |-> h.calls, dispatched |-> TRUE]
             ELSE [results |-> res1, calls |-> << >>, dispatched |-> FALSE]

\* sum(1 for r in results if r.get("is_fire"))
RECURSIVE FiresDetected(_)
FiresDetected(res) ==
    IF res = << >> THEN 0
    ELSE (IF res[1].is_fire THEN 1 ELSE 0) + FiresDetected(Tail(res))

ScanRecord(ts, res) ==
    [timestamp |-> ts, results |-> res, fires_detected |-> FiresDetected(res)]

\* ------------------------------------------------------------------------
\* Zone outcomes: what the collaborators do during one loop iteration
\* ------------------------------------------------------------------------
Outcome(sat, out, email, spread, tg) ==
    [sat |-> sat, out |-> out, email |-> email, spread |-> spread, tg |-> tg]

ClassifierOutputs ==
    {SingleOutput(v) : v \in ScoreVectors}
        \cup {DualOutput(CamVector, v) : v \in ScoreVectors}
        \cup {RaisingOutput}

AllOutcomes ==
    {Outcome(s, RaisingOutput, "off", "ok", "off") : s \in {"error", "none", "raise"}}
        \cup {Outcome("image", c, e, s, t) :
                c \in ClassifierOutputs, e \in {"off", "ok", "fail", "raise"},
                s \in {"ok", "raise"}, t \in {"off", "ok", "fail", "raise"}}

\* Without the imagery source every fetch reports an acquisition error
\* (ImagerySource.fetch -> AcquisitionError).
Effective(o) ==
    IF sentinel_available \/ o.sat = "raise" THEN o
    ELSE [o EXCEPT !.sat = "error"]

\* ------------------------------------------------------------------------
\* Initial state: MonitoringService.__init__ in each environment
\* ------------------------------------------------------------------------
NewScheduler == [state |-> "stopped", pool |-> TRUE, job |-> FALSE]
NoScheduler == [state |-> "none", pool |-> FALSE, job |-> FALSE]

\* time.time() when the process starts: seconds since 1970, far more than
\* the cooldown after YoloService's initial last_alert_time of 0.
ProcessStart == 1000

\* The status dict before get_status has filled it; last_scan is the
\* timestamp of the record reported, 0 when the key is absent.
\* No start request is being served.
NoRequest == [interval_hours |-> 0, threshold |-> 0]

NoStatus ==
    [is_running |-> FALSE, interval_hours |-> 0, detection_threshold |-> 0,
     next_scan |-> FALSE, last_scan |-> 0]

InitWith(sa, dm, sv, t0, tg, out) ==
    /\ classifier_out = out
    /\ predicted = NoPrediction
    /\ SCHEDULER_AVAILABLE = sa
    /\ detection_model = dm
    /\ sentinel_available = sv
    /\ scheduler = IF sa THEN 1 ELSE 0
    /\ scheds = [i \in 1..MaxScheds |->
                    IF sa /\ i = 1 THEN NewScheduler ELSE NoScheduler]
    /\ is_running = FALSE
    /\ scan_interval_hours = DEFAULT_INTERVAL_HOURS
    /\ detection_threshold = DEFAULT_THRESHOLD
    /\ detection_history = << >>
    /\ lock = "free"
    /\ pc = [t \in Threads |-> "idle"]
    /\ op = [t \in Threads |-> "none"]
    /\ results = [t \in Threads |-> << >>]
    /\ zi = [t \in Threads |-> 0]
    /\ ret = [t \in Threads |-> "none"]
    /\ cycles = 0
    /\ stamp = [t \in Threads |-> 0]
    /\ appends = 0
    /\ now = t0
    /\ calls = [t \in Threads |-> << >>]
    /\ last_dispatch = -1
    /\ burst = FALSE
    /\ survivor = [t \in Threads |-> FALSE]
    /\ halted = FALSE
    /\ opened = FALSE
    /\ seen = [t \in Threads |-> -1]
    /\ limit = [t \in Threads |-> -1]
    /\ history_reply = [t \in Threads |-> << >>]
    /\ status_reply = [t \in Threads |-> NoStatus]
    /\ asked = [t \in Threads |-> NoRequest]
    /\ telegram_configured = tg
    /\ last_alert_time = 0
    /\ senders = << >>
    /\ last_post = -1
    /\ double_alert = FALSE

\* The monitoring service's clock is read relative to the first scan.
InitAt(sa, dm, sv, t0, tg) == InitWith(sa, dm, sv, t0, tg, NoOutput)

InitEnv(sa, dm, sv) == InitAt(sa, dm, sv, 0, TRUE)

\* ------------------------------------------------------------------------
\* run_full_scan, statement by statement, on thread t
\* ------------------------------------------------------------------------

\* Lines 177-180: the call begins with an empty local list.
BeginScan(t, entry) ==
    /\ pc' = [pc EXCEPT ![t] = "scan_loop"]
    /\ op' = [op EXCEPT ![t] = entry]
    /\ results' = [results EXCEPT ![t] = << >>]
    /\ calls' = [calls EXCEPT ![t] = << >>]
    /\ zi' = [zi EXCEPT ![t] = 1]
    /\ UNCHANGED ret
    /\ cycles' = cycles + 1
    /\ stamp' = [stamp EXCEPT ![t] = 0]

\* The last alert sent to a notifier is less than the cooldown ago.
WithinCooldown ==
    last_dispatch >= 0 /\ now - last_dispatch < ALERT_COOLDOWN

\* Some notifier (email_service.send_alert, the Telegram HTTP post) was
\* called among the events evs.
Notified(evs) == \E k \in DOMAIN evs : evs[k].kind \in {"email", "post"}

\* The loop iteration with a dispatcher-wide cooldown in front of
\* _handle_detection: a result inside the window is not handled.
ScanZone_Cooldown(t, O) ==
    /\ pc[t] = "scan_loop"
    /\ zi[t] <= NumZones
    /\ \E o \in O :
         LET b == LoopBody(results[t], zi[t], Effective(o), detection_model,
                           IF WithinCooldown THEN 101 ELSE detection_threshold)
         IN  /\ results' = [results EXCEPT ![t] = b.results]
             /\ calls' = [calls EXCEPT ![t] = calls[t] \o b.calls]
             /\ last_dispatch' = IF Notified(b.calls) THEN now ELSE last_dispatch
             /\ burst' = (burst \/ (Notified(b.calls) /\ WithinCooldown))
    /\ zi' = [zi EXCEPT ![t] = zi[t] + 1]
    /\ UNCHANGED <<envVars, predVars, asked, streamVars, readVars, schedVars,
                   histVars, ghostVars, pc, op, ret, cycles, stamp, now>>

\* The loop iteration that gives the cycle up at the first zone that fails.
ScanZone_AbortOnFailure(t, O) ==
    /\ pc[t] = "scan_loop"
    /\ zi[t] <= NumZones
    /\ \E o \in O :
         LET b == LoopBody(results[t], zi[t], Effective(o), detection_model,
                           detection_threshold)
             failed == b.results[Len(b.results)].error # ""
         IN  /\ results' = [results EXCEPT ![t] = b.results]
             /\ calls' = [calls EXCEPT ![t] = calls[t] \o b.calls]
             /\ last_dispatch' = IF Notified(b.calls) THEN now ELSE last_dispatch
             /\ burst' = (burst \/ (Notified(b.calls) /\ WithinCooldown))
             /\ zi' = [zi EXCEPT ![t] = IF failed THEN NumZones + 1
                                        ELSE zi[t] + 1]
    /\ UNCHANGED <<envVars, predVars, asked, streamVars, readVars, schedVars,
                   histVars, ghostVars, pc, op, ret, cycles, stamp, now>>

\* Lines 182-195: one iteration of the loop, with zone outcome o \in O.
ScanZone(t, O) ==
    /\ pc[t] = "scan_loop"
    /\ zi[t] <= NumZones
    /\ \E o \in O :
         LET b == LoopBody(results[t], zi[t], Effective(o), detection_model,
                           detection_threshold)
         IN  /\ results' = [results EXCEPT ![t] = b.results]
             /\ calls' = [calls EXCEPT ![t] = calls[t] \o b.calls]
             /\ last_dispatch' = IF Notified(b.calls) THEN now ELSE last_dispatch
             /\ burst' = (burst \/ (Notified(b.calls) /\ WithinCooldown))
    /\ zi' = [zi EXCEPT ![t] = zi[t] + 1]
    /\ UNCHANGED <<envVars, predVars, asked, streamVars, readVars, schedVars,
                   histVars, ghostVars, pc, op, ret, cycles, stamp, now>>

\* The append made without waiting for the lock: the record is lost when
\* another thread is then rebinding the list to its copy (line 205).
HistoryAppend_Unlocked(t) ==
    /\ pc[t] = "scan_loop"
    /\ zi[t] > NumZones
    /\ lock' = t
    /\ detection_history' =
           IF lock = "free"
           THEN Append(detection_history, ScanRecord(appends + 1, results[t]))
           ELSE detection_history
    /\ appends' = appends + 1
    /\ stamp' = [stamp EXCEPT ![t] = appends + 1]
    /\ pc' = [pc EXCEPT ![t] = "scan_trim"]
    /\ UNCHANGED <<envVars, predVars, asked, streamVars, readVars, schedVars,
                   ghostVars, alertVars, results, zi, calls, cycles, op, ret>>

\* Lines 198-203: with self.lock (acquire), then
\* self.detection_history.append({...}); the record's timestamp is taken
\* here, and is modelled by the record's number in append order.
HistoryAppend(t) ==
    /\ pc[t] = "scan_loop"
    /\ zi[t] > NumZones
    /\ lock = "free"
    /\ lock' = t
    /\ detection_history' =
           Append(detection_history, ScanRecord(appends + 1, results[t]))
    /\ appends' = appends + 1
    /\ stamp' = [stamp EXCEPT ![t] = appends + 1]
    /\ pc' = [pc EXCEPT ![t] = "scan_trim"]
    /\ UNCHANGED <<envVars, predVars, asked, streamVars, readVars, schedVars,
                   ghostVars, alertVars, results, zi, calls, cycles, op, ret>>

\* The trim keeping the first 100 records instead of the last.
TrimHistory_KeepOldest(h) == SubSeq(h, 1, Min(Len(h), HISTORY_CAP))

\* Line 205: the list keeps its last 100 records.
TrimHistory(h) == PySliceFrom(h, -HISTORY_CAP)

\* Line 205 and the end of the with block (release).
HistoryTrim(t) ==
    /\ pc[t] = "scan_trim"
    /\ detection_history' = TrimHistory(detection_history)
    /\ lock' = "free"
    /\ pc' = [pc EXCEPT ![t] = "scan_return"]
    /\ UNCHANGED <<envVars, predVars, asked, streamVars, readVars, schedVars,
                   ghostVars, alertVars, scanVars, appends, op, ret>>

\* The call returns value v; run_full_scan's locals are gone.  An HTTP
\* thread holds v until the endpoint has answered, the job thread drops it.
Return(t, v) ==
    /\ pc' = [pc EXCEPT ![t] = IF t \in Callers THEN "respond" ELSE "idle"]
    /\ ret' = [ret EXCEPT ![t] = IF t \in Callers THEN v ELSE "none"]
    /\ op' = [op EXCEPT ![t] = IF t \in Callers THEN op[t] ELSE "none"]
    /\ results' = [results EXCEPT ![t] = << >>]
    /\ calls' = [calls EXCEPT ![t] = << >>]
    /\ zi' = [zi EXCEPT ![t] = 0]
    /\ survivor' = [survivor EXCEPT ![t] = FALSE]
    /\ stamp' = [stamp EXCEPT ![t] = 0]

\* Line 209 for a cycle called by scan_satellite (main.py:202-209) or run as
\* the scheduler's job.
ScanReturn(t) ==
    /\ pc[t] = "scan_return"
    /\ op[t] \in {"manual", "job"}
    /\ Return(t, "results")
    /\ UNCHANGED <<envVars, predVars, asked, streamVars, readVars, schedVars,
                   histVars, alertVars, cycles, halted, opened>>

\* The endpoint of main.py answers the request with the value returned.
Respond(t) ==
    /\ pc[t] = "respond"
    /\ pc' = [pc EXCEPT ![t] = "idle"]
    /\ ret' = [ret EXCEPT ![t] = "none"]
    /\ op' = [op EXCEPT ![t] = "none"]
    /\ seen' = [seen EXCEPT ![t] = -1]
    /\ limit' = [limit EXCEPT ![t] = -1]
    /\ history_reply' = [history_reply EXCEPT ![t] = << >>]
    /\ status_reply' = [status_reply EXCEPT ![t] = NoStatus]
    /\ asked' = [asked EXCEPT ![t] = NoRequest]
    /\ UNCHANGED <<envVars, predVars, streamVars, schedVars, histVars,
                   ghostVars, alertVars, scanVars>>

\* scan_satellite without a zone name (main.py:195-196, 201-202).
ScanSatellite(t, maxc) ==
    /\ t \in Callers
    /\ pc[t] = "idle"
    /\ cycles < maxc
    /\ IF sentinel_available
       THEN BeginScan(t, "manual")
       ELSE /\ pc' = [pc EXCEPT ![t] = "respond"]
            /\ ret' = [ret EXCEPT ![t] = "sentinel_error"]
            /\ op' = [op EXCEPT ![t] = "manual"]
            /\ UNCHANGED scanVars
    /\ UNCHANGED <<envVars, predVars, asked, streamVars, readVars, schedVars,
                   histVars, ghostVars, alertVars>>

RunFullScan(t, O) ==
    \/ ScanZone(t, O)
    \/ HistoryAppend(t)
    \/ HistoryTrim(t)
    \/ ScanReturn(t)

\* The wall clock advances.
TickSteps == {10, 21}

Tick(horizon) ==
    /\ \E d \in TickSteps : now + d <= horizon /\ now' = now + d
    /\ UNCHANGED <<envVars, predVars, asked, streamVars, readVars, schedVars,
                   histVars, ghostVars, scanVars, pc, op, ret, last_dispatch,
                   burst>>

\* ------------------------------------------------------------------------
\* Readers of the history
\* ------------------------------------------------------------------------

\* get_status (lines 371-395, served by main.py:176-179) takes no lock.
\* Lines 373-385: the dict is built from the flag, the interval, the
\* threshold and len(self.detection_history).
GetStatus(t) ==
    /\ t \in Callers
    /\ pc[t] = "idle"
    /\ seen' = [seen EXCEPT ![t] = Len(detection_history)]
    /\ status_reply' = [status_reply EXCEPT ![t] =
           [NoStatus EXCEPT !.is_running = is_running,
                            !.interval_hours = scan_interval_hours,
                            !.detection_threshold = detection_threshold]]
    /\ pc' = [pc EXCEPT ![t] = "status_last"]
    /\ op' = [op EXCEPT ![t] = "status"]
    /\ UNCHANGED <<envVars, predVars, asked, streamVars, schedVars, histVars,
                   ghostVars, alertVars, scanVars, ret, limit, history_reply>>

\* get_status reporting the oldest record of the history.
GetStatusLast_Oldest(t) ==
    /\ pc[t] = "status_last"
    /\ status_reply' = [status_reply EXCEPT
           ![t].next_scan = is_running /\ scheduler # 0
                                /\ scheds[scheduler].job,
           ![t].last_scan = IF detection_history # << >>
                            THEN detection_history[1].timestamp
                            ELSE 0]
    /\ pc' = [pc EXCEPT ![t] = "respond"]
    /\ ret' = [ret EXCEPT ![t] = "status"]
    /\ UNCHANGED <<envVars, predVars, asked, streamVars, schedVars, histVars,
                   ghostVars, alertVars, scanVars, op, seen, limit,
                   history_reply>>

\* Lines 387-395: next_scan when running and the job is there; last_scan
\* is self.detection_history[-1] when the list is not empty.
GetStatusLast(t) ==
    /\ pc[t] = "status_last"
    /\ status_reply' = [status_reply EXCEPT
           ![t].next_scan = is_running /\ scheduler # 0
                                /\ scheds[scheduler].job,
           ![t].last_scan =
               IF detection_history # << >>
               THEN detection_history[Len(detection_history)].timestamp
               ELSE 0]
    /\ pc' = [pc EXCEPT ![t] = "respond"]
    /\ ret' = [ret EXCEPT ![t] = "status"]
    /\ UNCHANGED <<envVars, predVars, asked, streamVars, schedVars, histVars,
                   ghostVars, alertVars, scanVars, op, seen, limit,
                   history_reply>>

\* get_history (lines 397-400), called by get_satellite_history
\* (main.py:222-226): under self.lock, self.detection_history[-limit:].
GetHistory(t, l) ==
    /\ t \in Callers
    /\ pc[t] = "idle"
    /\ lock = "free"
    /\ limit' = [limit EXCEPT ![t] = l]
    /\ history_reply' = [history_reply EXCEPT ![t] =
                             PySliceFrom(detection_history, -l)]
    /\ pc' = [pc EXCEPT ![t] = "history_total"]
    /\ op' = [op EXCEPT ![t] = "history"]
    /\ UNCHANGED <<envVars, predVars, asked, streamVars, schedVars, histVars,
                   ghostVars, alertVars, scanVars, ret, seen, status_reply>>

\* main.py:227: total_scans is len(monitoring_service.detection_history),
\* read without the lock.
GetHistoryTotal(t) ==
    /\ pc[t] = "history_total"
    /\ seen' = [seen EXCEPT ![t] = Len(detection_history)]
    /\ pc' = [pc EXCEPT ![t] = "respond"]
    /\ ret' = [ret EXCEPT ![t] = "history"]
    /\ UNCHANGED <<envVars, predVars, asked, streamVars, schedVars, histVars,
                   ghostVars, alertVars, scanVars, op, limit, history_reply,
                   status_reply>>

\* ------------------------------------------------------------------------
\* SpecHistory: many full scans requested by two HTTP threads, with a reader
\* that polls the status once the history is about to be full
\* ------------------------------------------------------------------------
InitHistory == InitEnv(TRUE, TRUE, TRUE)

\* ------------------------------------------------------------------------
\* SpecCycle: one scan_satellite request for a full scan, served by one
\* thread, with every zone outcome, while the clock advances
\* ------------------------------------------------------------------------
InitCycle == \E dm \in BOOLEAN : InitEnv(TRUE, dm, TRUE)

NextCycle ==
    \/ ScanSatellite("http1", 1)
    \/ RunFullScan("http1", AllOutcomes)
    \/ Respond("http1")
    \/ Tick(MaxTime)

SpecCycle == InitCycle /\ [][NextCycle]_vars

\* ------------------------------------------------------------------------
\* The scheduler library, as the service uses it (APScheduler 3.x):
\* a scheduler is created stopped; start() makes it run; shutdown() stops it
\* and shuts its executor pool down for good; a job fires only in a running
\* scheduler whose pool is alive, one instance at a time (max_instances=1):
\* the job runs on the one thread "job".
\* ------------------------------------------------------------------------
Created == {i \in 1..MaxScheds : scheds[i].state # "none"}

CanFire(i) ==
    /\ scheds[i].state = "running"
    /\ scheds[i].pool
    /\ scheds[i].job

InCycle(t) == pc[t] \in {"scan_loop", "scan_trim", "scan_return"}

InStop(t) == pc[t] \in {"stop_remove", "stop_shutdown", "stop_reset", "stop_idle"}

\* The scheduler's timer fires and an executor thread w runs the job.
TimerFire(w, maxc) ==
    /\ w \in Workers
    /\ pc[w] = "idle"
    /\ cycles < maxc
    /\ \E i \in Created : CanFire(i)
    /\ BeginScan(w, "job")
    /\ UNCHANGED <<envVars, predVars, asked, streamVars, readVars, schedVars,
                   histVars, ghostVars, alertVars>>

\* ------------------------------------------------------------------------
\* start_monitoring (main.py:211-215 calls it with the request's interval)
\* ------------------------------------------------------------------------

\* start_monitoring recording the interval before its guards.
StartCheck_RecordFirst(t, interval_hours) ==
    /\ t \in Callers
    /\ pc[t] \in {"idle", "start_call"}
    /\ op' = [op EXCEPT ![t] = "start"]
    /\ scan_interval_hours' = interval_hours
    /\ IF ~SCHEDULER_AVAILABLE
       THEN /\ pc' = [pc EXCEPT ![t] = "respond"]
            /\ ret' = [ret EXCEPT ![t] = "scheduler_unavailable"]
       ELSE IF is_running
       THEN /\ pc' = [pc EXCEPT ![t] = "respond"]
            /\ ret' = [ret EXCEPT ![t] = "already_running"]
       ELSE /\ pc' = [pc EXCEPT ![t] = "start_add_job"]
            /\ UNCHANGED ret
    /\ UNCHANGED <<envVars, predVars, asked, streamVars, readVars, scheduler,
                   scheds, is_running, detection_threshold, histVars,
                   ghostVars, scanVars, alertVars>>

\* Lines 326-332: the two guards, then the interval is recorded.
StartCheck(t, interval_hours) ==
    /\ t \in Callers
    /\ pc[t] \in {"idle", "start_call"}
    /\ op' = [op EXCEPT ![t] = "start"]
    /\ IF ~SCHEDULER_AVAILABLE
       THEN /\ pc' = [pc EXCEPT ![t] = "respond"]
            /\ ret' = [ret EXCEPT ![t] = "scheduler_unavailable"]
            /\ UNCHANGED scan_interval_hours
       ELSE IF is_running
       THEN /\ pc' = [pc EXCEPT ![t] = "respond"]
            /\ ret' = [ret EXCEPT ![t] = "already_running"]
            /\ UNCHANGED scan_interval_hours
       ELSE /\ pc' = [pc EXCEPT ![t] = "start_add_job"]
            /\ scan_interval_hours' = interval_hours
            /\ UNCHANGED ret
    /\ UNCHANGED <<envVars, predVars, asked, streamVars, readVars, scheduler,
                   scheds, is_running, detection_threshold, histVars,
                   ghostVars, scanVars, alertVars>>

\* Lines 335-340: add_job(..., id='satellite_scan', replace_existing=True).
StartAddJob(t) ==
    /\ pc[t] = "start_add_job"
    /\ scheds' = [scheds EXCEPT ![scheduler].job = TRUE]
    /\ pc' = [pc EXCEPT ![t] = "start_scheduler"]
    /\ UNCHANGED <<envVars, predVars, asked, streamVars, readVars, scheduler,
                   is_running, scan_interval_hours, detection_threshold,
                   histVars, ghostVars, scanVars, alertVars, op, ret>>

\* Line 342: self.scheduler.start(); SchedulerAlreadyRunningError when the
\* scheduler already runs.
StartScheduler(t) ==
    /\ pc[t] = "start_scheduler"
    /\ IF scheds[scheduler].state = "running"
       THEN /\ pc' = [pc EXCEPT ![t] = "respond"]
            /\ ret' = [ret EXCEPT ![t] = "raise"]
            /\ UNCHANGED scheds
       ELSE /\ pc' = [pc EXCEPT ![t] = "start_running"]
            /\ scheds' = [scheds EXCEPT ![scheduler].state = "running"]
            /\ UNCHANGED ret
    /\ UNCHANGED <<envVars, predVars, asked, streamVars, readVars, scheduler,
                   is_running, scan_interval_hours, detection_threshold,
                   histVars, ghostVars, scanVars, alertVars, op>>

\* start_monitoring leaving the first scan to the timer.
StartSetRunning_NoInitialScan(t, maxc) ==
    /\ pc[t] = "start_running"
    /\ cycles < maxc
    /\ is_running' = TRUE
    /\ pc' = [pc EXCEPT ![t] = "scan_return"]
    /\ UNCHANGED <<envVars, predVars, asked, streamVars, readVars, scheduler,
                   scheds, scan_interval_hours, detection_threshold, histVars,
                   ghostVars, alertVars, scanVars, op, ret>>

\* Lines 343-346: the flag is set and the initial scan begins on this thread.
StartSetRunning(t, maxc) ==
    /\ pc[t] = "start_running"
    /\ cycles < maxc
    /\ is_running' = TRUE
    /\ BeginScan(t, "start")
    /\ UNCHANGED <<envVars, predVars, asked, streamVars, readVars, scheduler,
                   scheds, scan_interval_hours, detection_threshold, histVars,
                   ghostVars, alertVars>>

\* Lines 348-352: the result is built; get_job(...) is None when the job is
\* gone, and .next_run_time then raises AttributeError.
StartReturn(t) ==
    /\ pc[t] = "scan_return"
    /\ op[t] = "start"
    /\ Return(t, IF scheds[scheduler].job THEN "success" ELSE "raise")
    /\ halted' = (halted /\ ~scheds[scheduler].job)
    /\ opened' = (opened \/ scheds[scheduler].job)
    /\ UNCHANGED <<envVars, predVars, asked, streamVars, readVars, schedVars,
                   histVars, alertVars, cycles>>

\* ------------------------------------------------------------------------
\* stop_monitoring
\* ------------------------------------------------------------------------

\* Lines 361-362.
StopCheck(t) ==
    /\ t \in Callers
    /\ pc[t] = "idle"
    /\ Cardinality(Created) + Cardinality({u \in Callers : InStop(u)}) < MaxScheds
    /\ op' = [op EXCEPT ![t] = "stop"]
    /\ IF ~is_running
       THEN /\ pc' = [pc EXCEPT ![t] = "respond"]
            /\ ret' = [ret EXCEPT ![t] = "not_running"]
       ELSE /\ pc' = [pc EXCEPT ![t] = "stop_remove"]
            /\ UNCHANGED ret
    /\ UNCHANGED <<envVars, predVars, asked, streamVars, readVars, schedVars,
                   histVars, ghostVars, scanVars, alertVars>>

\* Line 364: remove_job('satellite_scan'); JobLookupError when it is gone.
StopRemoveJob(t) ==
    /\ pc[t] = "stop_remove"
    /\ IF scheds[scheduler].job
       THEN /\ scheds' = [scheds EXCEPT ![scheduler].job = FALSE]
            /\ pc' = [pc EXCEPT ![t] = "stop_shutdown"]
            /\ UNCHANGED ret
       ELSE /\ pc' = [pc EXCEPT ![t] = "respond"]
            /\ ret' = [ret EXCEPT ![t] = "raise"]
            /\ UNCHANGED scheds
    /\ UNCHANGED <<envVars, predVars, asked, streamVars, readVars, scheduler,
                   is_running, scan_interval_hours, detection_threshold,
                   histVars, ghostVars, scanVars, alertVars, op>>

\* shutdown that also abandons the cycles in their loop.
StopShutdown_Interrupting(t) ==
    /\ pc[t] = "stop_shutdown"
    /\ IF scheds[scheduler].state = "running"
       THEN /\ scheds' = [scheds EXCEPT ![scheduler].state = "stopped",
                                        ![scheduler].pool = FALSE]
            /\ pc' = [u \in Threads |->
                         IF u = t THEN "stop_reset"
                         ELSE IF pc[u] = "scan_loop" /\ u \in Workers
                         THEN "idle" ELSE pc[u]]
            /\ survivor' = [u \in Threads |->
                                survivor[u] \/ pc[u] = "scan_loop"]
            /\ UNCHANGED ret
       ELSE /\ pc' = [pc EXCEPT ![t] = "respond"]
            /\ ret' = [ret EXCEPT ![t] = "raise"]
            /\ UNCHANGED <<scheds, survivor>>
    /\ UNCHANGED <<envVars, predVars, asked, streamVars, readVars, scheduler,
                   is_running, scan_interval_hours, detection_threshold,
                   histVars, scanVars, alertVars, op, halted, opened>>

\* Line 365: shutdown(wait=False); SchedulerNotRunningError when it does not
\* run.  Jobs that are executing are left to finish.
StopShutdown(t) ==
    /\ pc[t] = "stop_shutdown"
    /\ IF scheds[scheduler].state = "running"
       THEN /\ scheds' = [scheds EXCEPT ![scheduler].state = "stopped",
                                        ![scheduler].pool = FALSE]
            /\ pc' = [pc EXCEPT ![t] = "stop_reset"]
            /\ survivor' = [u \in Threads |->
                                survivor[u] \/ pc[u] = "scan_loop"]
            /\ UNCHANGED ret
       ELSE /\ pc' = [pc EXCEPT ![t] = "respond"]
            /\ ret' = [ret EXCEPT ![t] = "raise"]
            /\ UNCHANGED <<scheds, survivor>>
    /\ UNCHANGED <<envVars, predVars, asked, streamVars, readVars, scheduler,
                   is_running, scan_interval_hours, detection_threshold,
                   histVars, scanVars, alertVars, op, halted, opened>>

\* Line 366: self.scheduler = BackgroundScheduler().
StopReset(t) ==
    /\ pc[t] = "stop_reset"
    /\ LET fresh == Cardinality(Created) + 1
       IN  /\ scheduler' = fresh
           /\ scheds' = [scheds EXCEPT ![fresh] = NewScheduler]
    /\ pc' = [pc EXCEPT ![t] = "stop_idle"]
    /\ UNCHANGED <<envVars, predVars, asked, streamVars, readVars, is_running,
                   scan_interval_hours, detection_threshold, histVars,
                   ghostVars, scanVars, alertVars, op, ret>>

\* Lines 367-369: the flag is cleared and success is returned.
StopSetIdle(t) ==
    /\ pc[t] = "stop_idle"
    /\ is_running' = FALSE
    /\ pc' = [pc EXCEPT ![t] = "respond"]
    /\ ret' = [ret EXCEPT ![t] = "stopped"]
    /\ halted' = TRUE
    /\ opened' = FALSE
    /\ UNCHANGED <<envVars, predVars, asked, streamVars, readVars, scheduler,
                   scheds, scan_interval_hours, detection_threshold, histVars,
                   survivor, scanVars, alertVars, op>>

StartMonitoring(t) ==
    \/ \E h \in Intervals : StartCheck(t, h)
    \/ StartAddJob(t)
    \/ StartScheduler(t)
    \/ StartSetRunning(t, MaxCycles)
    \/ StartReturn(t)

StopMonitoring(t) ==
    \/ StopCheck(t)
    \/ StopRemoveJob(t)
    \/ StopShutdown(t)
    \/ StopReset(t)
    \/ StopSetIdle(t)

\* ------------------------------------------------------------------------
\* Spec: the lifecycle under concurrent HTTP requests and the scheduler's
\* job thread, in every environment
\* ------------------------------------------------------------------------
LifecycleOutcomes ==
    {Outcome("image", SingleOutput(<<90, 10>>), "off", "ok", "off")}

\* Everything is available, or exactly one of the scheduler library, the
\* detection model and the imagery source is missing.
Environments ==
    {<<TRUE, TRUE, TRUE>>, <<FALSE, TRUE, TRUE>>, <<TRUE, FALSE, TRUE>>,
     <<TRUE, TRUE, FALSE>>}

Init == \E e \in Environments : InitEnv(e[1], e[2], e[3])

Next ==
    \/ \E t \in Callers : StartMonitoring(t)
    \/ \E t \in Callers : StopMonitoring(t)
    \/ \E t \in Callers : ScanSatellite(t, MaxCycles)
    \/ \E w \in Workers : TimerFire(w, MaxCycles)
    \/ \E t \in Threads : RunFullScan(t, LifecycleOutcomes)
    \/ \E t \in Callers : Respond(t)

Spec == Init /\ [][Next]_vars

NextHistory ==
    \/ \E t \in Callers : ScanSatellite(t, MaxHistCycles)
    \/ \E t \in Callers : RunFullScan(t, LifecycleOutcomes)
    \/ appends >= HISTORY_CAP - 1 /\ GetStatus("http2")
    \/ GetStatusLast("http2")
    \/ \E t \in Callers : Respond(t)

SpecHistory == InitHistory /\ [][NextHistory]_vars

\* SpecRead: one HTTP thread starts the monitoring, the job thread runs the
\* timer's cycles, and a second HTTP thread reads the status and the history
\* with every limit up to MaxLimit while the cycles append.
Limits == 0..MaxLimit

NextRead ==
    \/ StartMonitoring("http1")
    \/ \E w \in Workers : TimerFire(w, MaxCycles)
    \/ \E t \in Threads : RunFullScan(t, LifecycleOutcomes)
    \/ GetStatus("http2")
    \/ GetStatusLast("http2")
    \/ \E l \in Limits : GetHistory("http2", l)
    \/ GetHistoryTotal("http2")
    \/ \E t \in Callers : Respond(t)

SpecRead == InitEnv(TRUE, TRUE, TRUE) /\ [][NextRead]_vars

\* ------------------------------------------------------------------------
\* SpecStart: start requests that name an interval and a threshold.

\* The thresholds a caller may name, in percent.
Thresholds == {DEFAULT_THRESHOLD, 80}

\* POST /api/satellite/start (main.py:211-213): the body is parsed as a
\* MonitoringStartRequest, whose only field is interval_hours
\* (main.py:170-171); a threshold named in the body is kept nowhere.
ReceiveStart(t, h, th) ==
    /\ t \in Callers
    /\ pc[t] = "idle"
    /\ pc' = [pc EXCEPT ![t] = "start_call"]
    /\ asked' = [asked EXCEPT ![t] = [interval_hours |-> h, threshold |-> th]]
    /\ UNCHANGED <<envVars, predVars, streamVars, schedVars, histVars,
                   ghostVars, alertVars, scanVars, op, ret, readVars>>

\* main.py:214-215: start_monitoring(interval_hours=interval).
StartCall(t) ==
    /\ pc[t] = "start_call"
    /\ StartCheck(t, asked[t].interval_hours)

NextStart ==
    \/ \E h \in Intervals, th \in Thresholds : ReceiveStart("http1", h, th)
    \/ StartCall("http1")
    \/ StartAddJob("http1")
    \/ StartScheduler("http1")
    \/ StartSetRunning("http1", MaxCycles)
    \/ StartReturn("http1")
    \/ StopMonitoring("http1")
    \/ \E w \in Workers : TimerFire(w, MaxCycles)
    \/ \E t \in Threads : RunFullScan(t, LifecycleOutcomes)
    \/ GetStatus("http2")
    \/ GetStatusLast("http2")
    \/ \E t \in Callers : Respond(t)

SpecStart == InitEnv(TRUE, TRUE, TRUE) /\ [][NextStart]_vars

\* ------------------------------------------------------------------------
\* SpecPredict: one predict_fire call on every output the classifier can
\* give for one image, with and without a loaded model.

\* Class scores, in percent.
Scores == {0, 30, 50, 70, 100}
Vectors == {<<a, b>> : a, b \in Scores}

PredictOutputs ==
    {SingleOutput(v) : v \in Vectors}
        \cup {DualOutput(c, v) : c \in {CamVector, <<99, 1>>}, v \in Vectors}
        \cup {RaisingOutput}

InitPredict ==
    \E dm \in BOOLEAN, out \in PredictOutputs :
        InitWith(TRUE, dm, TRUE, 0, TRUE, out)

\* predict_fire (lines 71-116) on the image whose classifier output is
\* classifier_out.
Predict ==
    /\ predicted = NoPrediction
    /\ predicted' = PredictFire(detection_model, classifier_out)
    /\ UNCHANGED <<envVars, classifier_out, asked, streamVars, schedVars,
                   histVars, ghostVars, alertVars, scanVars, pc, op, ret,
                   readVars>>

NextPredict == Predict

SpecPredict == InitPredict /\ [][NextPredict]_vars

\* ------------------------------------------------------------------------
\* SpecOverlap: a start with its initial scan, the timer's cycles on the job
\* thread and manual full scans on both HTTP threads, interleaved statement
\* by statement.
NextOverlap ==
    \/ StartMonitoring("http1")
    \/ \E t \in Callers : ScanSatellite(t, MaxCycles + 1)
    \/ \E w \in Workers : TimerFire(w, MaxCycles + 1)
    \/ \E t \in Threads : RunFullScan(t, LifecycleOutcomes)
    \/ \E t \in Callers : Respond(t)

SpecOverlap == InitEnv(TRUE, TRUE, TRUE) /\ [][NextOverlap]_vars

\* ------------------------------------------------------------------------
\* SpecSingle: manual single-zone scans on one HTTP thread while the other
\* starts the monitoring and the job thread runs the timer's cycles.

\* A single-zone scan that hands a qualifying result to _handle_detection.
ScanSingle_Dispatching(t, z, O) ==
    /\ t \in Callers
    /\ pc[t] = "idle"
    /\ op' = [op EXCEPT ![t] = "single"]
    /\ IF ~sentinel_available
       THEN /\ pc' = [pc EXCEPT ![t] = "respond"]
            /\ ret' = [ret EXCEPT ![t] = "sentinel_error"]
            /\ UNCHANGED <<results, calls, last_dispatch>>
       ELSE \E o \in O :
              IF o.sat = "raise"
              THEN /\ pc' = [pc EXCEPT ![t] = "respond"]
                   /\ ret' = [ret EXCEPT ![t] = "raise"]
                   /\ UNCHANGED <<results, calls, last_dispatch>>
              ELSE LET r == ScanZoneForFire(z, o, detection_model)
                   IN  /\ pc' = [pc EXCEPT ![t] = "single_return"]
                       /\ results' = [results EXCEPT ![t] = << r >>]
                       /\ calls' = [calls EXCEPT ![t] =
                              IF Qualifies(r, detection_threshold)
                              THEN HandleDetection(z, o).calls ELSE << >>]
                       /\ last_dispatch' =
                              IF Qualifies(r, detection_threshold)
                              THEN now ELSE last_dispatch
                       /\ UNCHANGED ret
    /\ UNCHANGED <<envVars, predVars, asked, streamVars, readVars, schedVars,
                   histVars, ghostVars, now, burst, zi, cycles, stamp>>

\* scan_satellite with a zone name (main.py:195-199): the availability
\* check, then scan_zone_for_fire (lines 118-168), which returns the
\* result of the zone; an exception of the imagery source escapes it.
ScanSingle(t, z, O) ==
    /\ t \in Callers
    /\ pc[t] = "idle"
    /\ op' = [op EXCEPT ![t] = "single"]
    /\ IF ~sentinel_available
       THEN /\ pc' = [pc EXCEPT ![t] = "respond"]
            /\ ret' = [ret EXCEPT ![t] = "sentinel_error"]
            /\ UNCHANGED <<results, calls, last_dispatch>>
       ELSE \E o \in O :
              IF o.sat = "raise"
              THEN /\ pc' = [pc EXCEPT ![t] = "respond"]
                   /\ ret' = [ret EXCEPT ![t] = "raise"]
                   /\ UNCHANGED <<results, calls, last_dispatch>>
              ELSE /\ pc' = [pc EXCEPT ![t] = "single_return"]
                   /\ results' = [results EXCEPT ![t] =
                          << ScanZoneForFire(z, o, detection_model) >>]
                   /\ UNCHANGED <<ret, calls, last_dispatch>>
    /\ UNCHANGED <<envVars, predVars, asked, streamVars, readVars, schedVars,
                   histVars, ghostVars, now, burst, zi, cycles, stamp>>

\* main.py:200: the endpoint returns the result.
SingleReturn(t) ==
    /\ pc[t] = "single_return"
    /\ pc' = [pc EXCEPT ![t] = "respond"]
    /\ ret' = [ret EXCEPT ![t] = "single"]
    /\ results' = [results EXCEPT ![t] = << >>]
    /\ calls' = [calls EXCEPT ![t] = << >>]
    /\ UNCHANGED <<envVars, predVars, asked, streamVars, readVars, schedVars,
                   histVars, ghostVars, alertVars, zi, cycles, stamp, op>>

InitSingle == \E sv \in BOOLEAN : InitEnv(TRUE, TRUE, sv)

NextSingle ==
    \/ StartMonitoring("http1")
    \/ \E w \in Workers : TimerFire(w, MaxCycles)
    \/ \E t \in Threads : RunFullScan(t, LifecycleOutcomes)
    \/ \E z \in Zones : ScanSingle("http2", z, AllOutcomes)
    \/ SingleReturn("http2")
    \/ \E t \in Callers : Respond(t)

SpecSingle == InitSingle /\ [][NextSingle]_vars

\* SpecRace: the lifecycle with every collaborator available and room for
\* the initial cycle of two start calls and one cycle of the timer.
InitRace == InitEnv(TRUE, TRUE, TRUE)

NextRace ==
    \/ \E t \in Callers : StartMonitoring(t)
    \/ \E t \in Callers : StopMonitoring(t)
    \/ \E w \in Workers : TimerFire(w, MaxCycles + 1)
    \/ \E t \in Threads : RunFullScan(t, LifecycleOutcomes)
    \/ \E t \in Callers : Respond(t)

SpecRace == InitRace /\ [][NextRace]_vars

\* SpecStop: one HTTP thread starts and stops the monitoring while the job
\* thread runs the timer's cycles.  A thread that can take a step of
\* run_full_scan infinitely often takes it: threads are scheduled, and the
\* lock is handed over.
NextStop ==
    \/ StartMonitoring("http1")
    \/ StopMonitoring("http1")
    \/ \E w \in Workers : TimerFire(w, MaxCycles)
    \/ \E t \in Threads : RunFullScan(t, LifecycleOutcomes)
    \/ \E t \in Callers : Respond(t)

SpecStop ==
    /\ InitEnv(TRUE, TRUE, TRUE)
    /\ [][NextStop]_vars
    /\ \A t \in Threads : SF_vars(RunFullScan(t, LifecycleOutcomes))

\* ------------------------------------------------------------------------
\* YoloService.send_telegram_alert, called by the live stream
\* (generate_frames), the image upload (process_image) and the video upload
\* (process_video), each on its own thread
\* ------------------------------------------------------------------------
Sender(ct, state) == [current_time |-> ct, state |-> state]

\* Lines 29-35 and 50: the guards, then Thread(target=_send).start().  The
\* one shared read is self.last_alert_time; a call that returns early changes
\* nothing.
SendTelegramAlert ==
    /\ Len(senders) < MaxAlerts
    /\ telegram_configured
    /\ LET current_time == now
       IN  /\ ~(current_time - last_alert_time < ALERT_COOLDOWN)
           /\ senders' = Append(senders, Sender(current_time, "started"))
    /\ UNCHANGED <<envVars, predVars, asked, schedVars, histVars, ghostVars,
                   alertVars, scanVars, pc, op, ret, readVars,
                   telegram_configured, last_alert_time, last_post,
                   double_alert>>

\* The sender thread recording the alert time also when the post raises.
SenderPost_RecordOnFailure(i) ==
    /\ i \in DOMAIN senders
    /\ senders[i].state = "started"
    /\ \/ /\ senders' = [senders EXCEPT ![i].state = "posted"]
          /\ last_post' = now
          /\ double_alert' =
                 (double_alert \/
                     (last_post >= 0 /\ now - last_post < ALERT_COOLDOWN))
          /\ UNCHANGED last_alert_time
       \/ /\ senders' = [senders EXCEPT ![i].state = "failed"]
          /\ last_alert_time' = senders[i].current_time
          /\ UNCHANGED <<last_post, double_alert>>
    /\ UNCHANGED <<envVars, predVars, asked, schedVars, histVars, ghostVars,
                   alertVars, scanVars, pc, op, ret, readVars,
                   telegram_configured>>

\* Line 44 on sender thread i: requests.post returns, or raises and the
\* thread ends at line 48.
SenderPost(i) ==
    /\ i \in DOMAIN senders
    /\ senders[i].state = "started"
    /\ \/ /\ senders' = [senders EXCEPT ![i].state = "posted"]
          /\ last_post' = now
          /\ double_alert' =
                 (double_alert \/
                     (last_post >= 0 /\ now - last_post < ALERT_COOLDOWN))
       \/ /\ senders' = [senders EXCEPT ![i].state = "failed"]
          /\ UNCHANGED <<last_post, double_alert>>
    /\ UNCHANGED <<envVars, predVars, asked, schedVars, histVars, ghostVars,
                   alertVars, scanVars, pc, op, ret, readVars,
                   telegram_configured, last_alert_time>>

\* Line 45 on sender thread i: self.last_alert_time = current_time.
SenderRecord(i) ==
    /\ i \in DOMAIN senders
    /\ senders[i].state = "posted"
    /\ last_alert_time' = senders[i].current_time
    /\ senders' = [senders EXCEPT ![i].state = "done"]
    /\ UNCHANGED <<envVars, predVars, asked, schedVars, histVars, ghostVars,
                   alertVars, scanVars, pc, op, ret, readVars,
                   telegram_configured, last_post, double_alert>>

\* ------------------------------------------------------------------------
\* SpecStream: the streaming alert path while the clock advances
\* ------------------------------------------------------------------------
InitStream == \E tg \in BOOLEAN : InitAt(TRUE, TRUE, TRUE, ProcessStart, tg)

NextStream ==
    \/ SendTelegramAlert
    \/ \E i \in 1..MaxAlerts : SenderPost(i)
    \/ \E i \in 1..MaxAlerts : SenderRecord(i)
    \/ Tick(ProcessStart + MaxTime)

SpecStream == InitStream /\ [][NextStream]_vars

\* C3: the cooldown check and the update of last_alert_time are one atomic
\* step, so that no two alerts are sent less than the cooldown apart.
C3_OneAlertPerWindow == ~double_alert

\* ------------------------------------------------------------------------
\* Claims about one scan cycle (SpecCycle)
\* ------------------------------------------------------------------------

\* The loop of thread t has run over every zone.
LoopDone(t) ==
    \/ pc[t] = "scan_loop" /\ zi[t] > NumZones
    \/ pc[t] = "scan_trim"

\* C1: whatever the zones' outcomes, the results list of a cycle holds
\* exactly one entry per configured zone, in zone order, and so does every
\* record of the history.
C1_OneEntryPerZone ==
    /\ \A t \in Threads :
         LoopDone(t) =>
            /\ Len(results[t]) = NumZones
            /\ \A i \in 1..NumZones : results[t][i].zone = i
    /\ \A k \in DOMAIN detection_history :
         Len(detection_history[k].results) = NumZones

C4_HistoryAtMostCap ==
    /\ Len(detection_history) <= HISTORY_CAP
    /\ \A t \in Threads : seen[t] <= HISTORY_CAP

\* C5: eviction is FIFO.  Whenever no append is in progress, after n appends
\* the history holds exactly the last min(n, 100) records appended, in the
\* order of their appends (a record carries its number in that order).
C5_FifoEviction ==
    lock = "free" =>
        /\ Len(detection_history) = Min(appends, HISTORY_CAP)
        /\ \A i \in DOMAIN detection_history :
             detection_history[i].timestamp =
                 appends - Len(detection_history) + i

\* 105 appends done: the 5 oldest records are gone.
C5_Witness ==
    /\ lock = "free"
    /\ appends = 105
    /\ Len(detection_history) = HISTORY_CAP
    /\ detection_history[1].timestamp = 6
    /\ detection_history[HISTORY_CAP].timestamp = 105

\* ------------------------------------------------------------------------
\* Claims about the lifecycle (Spec, SpecStop)
\* ------------------------------------------------------------------------

\* Thread t makes the call named entry in this step.
Calls(t, entry) == pc[t] = "idle" /\ op'[t] = entry

\* The step answers thread t's call with value v.
Answers(t, v) == pc'[t] = "respond" /\ ret'[t] = v

\* The step leaves the monitoring state, the scheduler and the history as
\* they are and begins no scan.
NoEffect ==
    UNCHANGED <<is_running, scan_interval_hours, detection_threshold,
                scheduler, scheds, detection_history, appends, cycles>>

\* C6: stop_monitoring while not running answers "not running" and
\* start_monitoring while running answers "already running"; either way the
\* flag, the interval, the threshold, the job and the history keep their
\* values and no scan begins.
C6_MisuseRejectedWithoutEffect ==
    [][\A t \in Callers :
          /\ (Calls(t, "stop") /\ ~is_running) =>
                 (Answers(t, "not_running") /\ NoEffect)
          /\ (Calls(t, "start") /\ is_running) =>
                 (Answers(t, "already_running") /\ NoEffect)]_vars

\* Both rejections are pending answers while the monitoring runs.
C6_Witness ==
    /\ is_running
    /\ \E t, u \in Callers :
         /\ pc[t] = "respond" /\ ret[t] = "already_running"
         /\ pc[u] = "respond" /\ ret[u] = "not_running"

\* C7: while the detection model or the imagery source is unavailable,
\* start_monitoring is rejected: the machine stays Idle, no job is scheduled
\* and no start runs a scan cycle.
C7_StartNeedsCollaborators ==
    (~detection_model \/ ~sentinel_available) =>
        /\ ~is_running
        /\ \A i \in Created : ~scheds[i].job
        /\ \A t \in Callers : op[t] = "start" => ~InCycle(t)

\* C8: when start_monitoring returns success, the record of its initial
\* cycle is in the history, with the results of that cycle, and the repeating
\* job is in the scheduler (the answer carries its next run time).
C8_StartScansBeforeSuccess ==
    [][\A t \in Callers :
          (pc[t] = "scan_return" /\ op[t] = "start"
              /\ Answers(t, "success")) =>
              /\ stamp[t] > 0
              /\ \E k \in DOMAIN detection_history :
                   /\ detection_history[k].timestamp = stamp[t]
                   /\ detection_history[k].results = results[t]
                   /\ Len(detection_history[k].results) = NumZones
              /\ scheds[scheduler].job]_vars

\* A start has answered success: it is running, with its job able to fire
\* and its record the latest of the history.
C8_Witness ==
    \E t \in Callers :
        /\ pc[t] = "respond" /\ ret[t] = "success" /\ op[t] = "start"
        /\ is_running
        /\ CanFire(scheduler)
        /\ detection_history # << >>

\* C9: a cycle that is in its loop when stop_monitoring shuts the scheduler
\* down is not interrupted: it goes on over the remaining zones and its
\* record, with every zone, is eventually in the history.
C9_InFlightCycleCompletes ==
    \A t \in Threads :
        survivor[t] ~>
            /\ survivor[t]
            /\ pc[t] = "scan_return"
            /\ \E k \in DOMAIN detection_history :
                 /\ detection_history[k].timestamp = stamp[t]
                 /\ Len(detection_history[k].results) = NumZones

\* The timer's cycle was scanning when the stop came; the machine is Idle
\* and the cycle has appended its record.
C9_Witness ==
    /\ ~is_running
    /\ survivor["job"]
    /\ pc["job"] = "scan_return"
    /\ stamp["job"] > 0

\* A start_monitoring call is past line 342: it has started the scheduler
\* and is setting the flag, scanning, or about to return.
StartInProgress ==
    \E t \in Callers :
        \/ pc[t] = "start_running"
        \/ op[t] = "start" /\ InCycle(t)

\* C10: after stop_monitoring has returned success, no timer-triggered
\* cycle begins until a start_monitoring succeeds: the job thread begins no
\* cycle while the last call to return success was a stop, unless a start is
\* by then between starting the scheduler and its return.
C10_NoTimerCycleWhileStopped ==
    [][\A w \in Workers :
          (pc[w] = "idle" /\ pc'[w] = "scan_loop") =>
              (~halted \/ StartInProgress)]_vars

\* ------------------------------------------------------------------------
\* Claims about one cycle with failing collaborators (SpecCycle)
\* ------------------------------------------------------------------------

\* The records of the history that thread t's cycle appended.
RecordsOf(t) ==
    {k \in DOMAIN detection_history :
        /\ detection_history[k].timestamp = stamp[t]
        /\ detection_history[k].results = results[t]}

\* C11: every run_full_scan call appends exactly one record, whatever zones
\* fail at acquisition or classification.  Nothing is appended while the
\* loop runs; once the loop is over the history holds one record of the
\* call, with an entry for every zone; without the classifier every entry is
\* an error entry; when no call is under way there are as many records
\* appended as calls begun.
C11_OneRecordPerCall ==
    /\ appends <= cycles
    /\ (\A t \in Threads : ~InCycle(t)) => appends = cycles
    /\ \A t \in Threads :
         /\ pc[t] = "scan_loop" => stamp[t] = 0
         /\ pc[t] \in {"scan_trim", "scan_return"} =>
              /\ stamp[t] > 0
              /\ Cardinality(RecordsOf(t)) = 1
              /\ \A z \in Zones :
                   \E i \in DOMAIN results[t] : results[t][i].zone = z
              /\ ~detection_model =>
                   \A i \in DOMAIN results[t] : results[t][i].error # ""

\* A cycle whose first zone failed at acquisition and whose last zone was
\* classified has returned with its one record in the history.
C11_Witness ==
    \E t \in Threads :
        /\ pc[t] = "scan_return"
        /\ appends = 1
        /\ Len(detection_history) = 1
        /\ results[t][1].error = "acquisition"
        /\ results[t][Len(results[t])].zone = NumZones
        /\ results[t][Len(results[t])].error = ""

\* The entry that scan_zone_for_fire returned for zone z in thread t's cycle:
\* the first entry of the zone in the results list.
ResultOf(t, z) ==
    results[t][CHOOSE i \in DOMAIN results[t] :
                   /\ results[t][i].zone = z
                   /\ \A j \in 1..(i - 1) : results[t][j].zone # z]

\* How many times _handle_detection was entered for zone z in t's cycle.
Dispatches(t, z) ==
    Cardinality({k \in DOMAIN calls[t] : calls[t][k] = Event("dispatch", z)})

\* C12: within a cycle, alert handling is entered exactly once for each
\* result that is Fire with confidence at or above the threshold, and never
\* for a Fire result below it, a result of another class or an error entry.
C12_GateDecidesDispatch ==
    \A t \in Threads :
        \A z \in Zones :
            (\E i \in DOMAIN results[t] : results[t][i].zone = z) =>
                LET r == ResultOf(t, z)
                IN  Dispatches(t, z) =
                        IF /\ r.error = ""
                           /\ r.prediction = "Fire"
                           /\ r.confidence >= detection_threshold
                        THEN 1 ELSE 0

\* A cycle met Fire at exactly the threshold and handled it, and met Fire at
\* 0.65 and did not.
C12_Witness ==
    \E t \in Threads :
        /\ LoopDone(t)
        /\ \E y, z \in Zones :
             /\ ResultOf(t, y).prediction = "Fire"
             /\ ResultOf(t, y).confidence = detection_threshold
             /\ Dispatches(t, y) = 1
             /\ ResultOf(t, z).prediction = "Fire"
             /\ ResultOf(t, z).confidence = 65
             /\ Dispatches(t, z) = 0

\* Thread t's cycle made the collaborator call kind for zone z.
Called(t, kind, z) ==
    \E k \in DOMAIN calls[t] : calls[t][k] = Event(kind, z)

\* C13: the notifiers are attempted independently.  For every detection
\* that entered alert handling, unless the spread estimator raised, the
\* Telegram notifier is attempted whatever the email notifier did (success,
\* failure value or exception), and the cycle appends its record.
C13_NotifiersIndependent ==
    \A t \in Threads :
        /\ \A z \in Zones :
             (/\ zi[t] > z
              /\ Called(t, "dispatch", z)
              /\ Called(t, "spread", z) => Called(t, "enrich", z)) =>
                 Called(t, "telegram", z)
        /\ pc[t] = "scan_return" => Cardinality(RecordsOf(t)) = 1

\* ------------------------------------------------------------------------
\* Claims about the readers (SpecRead)
\* ------------------------------------------------------------------------

\* The last n elements of list h, oldest first; all of h when n >= Len(h).
LastRecords(h, n) == SubSeq(h, Len(h) - Min(n, Len(h)) + 1, Len(h))

\* C14: get_history(limit) returns exactly the last min(limit, len(history))
\* records, oldest first, for every limit >= 0: the empty list for limit 0,
\* the whole history for a limit above its length.
C14_LastLimitRecords ==
    [][\A t \in Callers :
          (pc[t] = "idle" /\ op'[t] = "history") =>
              history_reply'[t] = LastRecords(detection_history, limit'[t])
      ]_vars

\* ------------------------------------------------------------------------
\* Claims about the streaming cooldown state (SpecStream)
\* ------------------------------------------------------------------------

\* C15: the last-alert timestamp never decreases: every write to
\* last_alert_time, by any sender thread in any interleaving, stores a value
\* at least as large as the value it replaces.
C15_LastAlertTimeMonotonic ==
    [][last_alert_time' >= last_alert_time]_vars

\* ------------------------------------------------------------------------
\* Claims about the running flag (SpecRace)
\* ------------------------------------------------------------------------

\* No start_monitoring or stop_monitoring call is under way.
Quiescent ==
    \A t \in Callers : op[t] \in {"start", "stop"} => pc[t] = "respond"

\* C16: the running flag is true only between a start_monitoring that
\* succeeds and the matching stop_monitoring.  Whenever no start or stop is
\* under way and the flag is set, the last of these calls to return success
\* was a start; in particular the flag is not left set by a start that did
\* not return success.
C16_RunningOnlyAfterSuccessfulStart ==
    (Quiescent /\ is_running) => opened

\* C17: after a start request naming an interval and a threshold has
\* returned success, the service holds that interval and that threshold,
\* the values get_status reports and line 188 gates on.
C17_StartRecordsIntervalAndThreshold ==
    \A t \in Callers :
        (op[t] = "start" /\ pc[t] = "respond" /\ ret[t] = "success"
            /\ asked[t] # NoRequest)
        => /\ scan_interval_hours = asked[t].interval_hours
           /\ detection_threshold = asked[t].threshold

\* C18: get_status can be called whether or not monitoring is running and
\* answers with a status; neither of its steps changes the service's state;
\* its last_scan is the record appended last (none while nothing has been
\* appended), also while another thread is between its append and its trim.
C18_StatusReportsLatestRecord ==
    [][\A t \in Callers :
          /\ (pc[t] = "idle" /\ op'[t] = "status")
             => /\ status_reply'[t].is_running = is_running
                /\ UNCHANGED <<schedVars, histVars, scanVars, alertVars,
                               ghostVars>>
          /\ (pc[t] = "status_last" /\ pc'[t] = "respond")
             => /\ ret'[t] = "status"
                /\ status_reply'[t].last_scan = appends
                /\ UNCHANGED <<schedVars, histVars, scanVars, alertVars,
                               ghostVars>>]_vars

\* A status answered while the job thread holds the lock between its
\* append and its trim reports the record that thread has just appended.
C18_Witness ==
    /\ pc["http2"] = "respond"
    /\ ret["http2"] = "status"
    /\ status_reply["http2"].is_running
    /\ status_reply["http2"].last_scan = appends
    /\ appends >= 2
    /\ \E w \in Workers : pc[w] = "scan_trim" /\ stamp[w] = appends

\* C19: whatever the collaborators do and however start, stop and the
\* cycles interleave, a call of run_full_scan, start_monitoring or
\* stop_monitoring ends with a result value: no call ends by raising.
C19_NoCallRaises ==
    \A t \in Threads :
        op[t] \in {"start", "stop", "manual", "job"} => ret[t] # "raise"

\* The vector predict_fire is to classify: the last array of the
\* classifier's output, for its one image.
FinalVector(out) == out.arrays[Len(out.arrays)][1]

\* C20: predict_fire reports an error exactly when the model is missing or
\* the classifier throws; otherwise its label is a class with the highest
\* score in the last vector of the classifier's output, single or second
\* of a pair, and its confidence is that class's score.
C20_LabelFromFinalVector ==
    predicted # NoPrediction =>
        /\ predicted.error <=> (~detection_model \/ classifier_out.raises)
        /\ ~predicted.error =>
             LET v == FinalVector(classifier_out)
             IN  \E i \in DOMAIN v :
                     /\ \A j \in DOMAIN v : v[j] <= v[i]
                     /\ predicted.confidence = v[i]
                     /\ predicted.prediction = ClassName(i - 1)
                     /\ predicted.is_fire <=> (i = 2)

\* A pair whose auxiliary output peaks on Fire and whose classification
\* vector peaks on No Fire was classified as No Fire.
C20_Witness ==
    /\ classifier_out = DualOutput(CamVector, <<70, 30>>)
    /\ predicted.prediction = "No Fire"
    /\ predicted.confidence = 70

\* The schedulers that hold the repeating scan job.
Scheduled == {i \in 1..MaxScheds : scheds[i].job}

\* C21: when both HTTP threads have called start_monitoring on the idle
\* service and both calls have returned, one has returned success, the
\* other the already-running error, and one scan job is scheduled.
C21_OneStartWins ==
    (/\ \A t \in Callers : op[t] = "start" /\ pc[t] = "respond"
     /\ scheduler = 1
     /\ ~halted)
    => /\ \E t, u \in Callers :
              /\ t # u
              /\ ret[t] = "success"
              /\ ret[u] = "already_running"
       /\ Cardinality(Scheduled) = 1

\* The cycles that have got past their loop.
PastLoop == cycles - Cardinality({t \in Threads : pc[t] = "scan_loop"})

\* C22: however the timer's cycles, the initial scan of a start and manual
\* scans interleave, no append is lost: below the cap the history holds one
\* record for every cycle that is past its loop, in append order, each
\* once, and a thread past its append finds its own record there.
C22_NoAppendLost ==
    appends < HISTORY_CAP =>
        /\ Len(detection_history) = PastLoop
        /\ \A k \in DOMAIN detection_history :
               detection_history[k].timestamp = k
        /\ \A t \in Threads :
               pc[t] \in {"scan_trim", "scan_return"} =>
                   detection_history[stamp[t]].results = results[t]

\* The job thread holds the lock between its append and its trim while a
\* manual scan has finished its loop and waits to append.
C22_Witness ==
    /\ pc["job"] = "scan_trim"
    /\ op["job"] = "job"
    /\ pc["http2"] = "scan_loop"
    /\ op["http2"] = "manual"
    /\ zi["http2"] > NumZones
    /\ Len(detection_history) = 2

\* C23 as stated: no alert is dispatched before every zone of the cycle has
\* been acquired and classified.
C23_DispatchAfterAllZones ==
    \A t \in Threads :
        (\E z \in Zones : Called(t, "dispatch", z)) => zi[t] > NumZones

\* C23, amended: the detection of a zone is dispatched in that zone's own
\* loop iteration, once the zone has been classified as a fire and before
\* any later zone is acquired; the record is appended when the loop is over
\* and no dispatch follows the append.
C23_DispatchInOwnIteration ==
    [][\A t \in Threads :
          /\ \A z \in Zones :
                 (~Called(t, "dispatch", z) /\ Called(t, "dispatch", z)')
                 => /\ pc[t] = "scan_loop"
                    /\ zi[t] = z
                    /\ zi'[t] = z + 1
                    /\ \E i \in DOMAIN results'[t] :
                           /\ results'[t][i].zone = z
                           /\ results'[t][i].is_fire
                    /\ \A i \in DOMAIN results'[t] : results'[t][i].zone <= z
          /\ (stamp[t] = 0 /\ stamp'[t] > 0)
             => /\ zi[t] > NumZones
                /\ calls'[t] = calls[t]
          /\ (pc[t] = "scan_trim" /\ pc'[t] = "scan_return")
             => calls'[t] = calls[t]]_vars

\* The first zone's detection was dispatched while the second zone had not
\* been acquired yet.
C23_Witness ==
    /\ pc["http1"] = "scan_loop"
    /\ zi["http1"] = 2
    /\ Called("http1", "dispatch", 1)
    /\ \A i \in DOMAIN results["http1"] : results["http1"][i].zone = 1

\* In thread t's cycle the call of kind k1 for zone z came before the call
\* of kind k2 for zone z.
Before(t, k1, k2, z) ==
    \E i, j \in DOMAIN calls[t] :
        /\ i < j
        /\ calls[t][i] = Event(k1, z)
        /\ calls[t][j] = Event(k2, z)

C25_SingleScanHasNoEffect ==
    [][\A t \in Callers :
          (op'[t] = "single" /\ pc'[t] # pc[t])
          => /\ UNCHANGED <<detection_history, appends, lock, cycles>>
             /\ UNCHANGED <<is_running, scan_interval_hours,
                            detection_threshold, scheduler, scheds>>
             /\ UNCHANGED <<last_dispatch, burst, last_alert_time, senders>>
             /\ calls'[t] = << >>]_vars

\* A single-zone scan has found a fire at the threshold while monitoring
\* runs and the history holds a record.
C25_Witness ==
    /\ pc["http2"] = "single_return"
    /\ op["http2"] = "single"
    /\ Len(results["http2"]) = 1
    /\ Qualifies(results["http2"][1], detection_threshold)
    /\ calls["http2"] = << >>
    /\ is_running
    /\ Len(detection_history) = 1

\* C26: in the streaming path last_alert_time is written only by a sender
\* thread whose post has returned, with the time its call read; a sender
\* whose post raises writes nothing, so that after failed sends only the
\* next call is still let through; a sender thread is started only by a
\* call made with the credentials set and outside the cooldown, and starting
\* it changes nothing else.
C26_RecordedOnlyAfterPost ==
    /\ [][/\ last_alert_time' # last_alert_time
             => \E i \in DOMAIN senders :
                    /\ senders[i].state = "posted"
                    /\ senders'[i].state = "done"
                    /\ last_alert_time' = senders[i].current_time
          /\ \A i \in DOMAIN senders :
                 (senders[i].state = "started" /\ senders'[i].state = "failed")
                 => UNCHANGED <<last_alert_time, last_post>>
          /\ Len(senders') > Len(senders)
             => /\ telegram_configured
                /\ now - last_alert_time >= ALERT_COOLDOWN
                /\ UNCHANGED <<last_alert_time, last_post>>]_vars
    /\ [](/\ telegram_configured
          /\ Len(senders) < MaxAlerts
          /\ \A i \in DOMAIN senders : senders[i].state = "failed"
          => ENABLED SendTelegramAlert)

\* The first send failed and a second call, made less than the cooldown
\* after the first, has started its sender thread.
C26_Witness ==
    /\ Len(senders) = 2
    /\ senders[1].state = "failed"
    /\ senders[2].current_time - senders[1].current_time < ALERT_COOLDOWN
    /\ senders[2].current_time > senders[1].current_time
    /\ last_alert_time = 0

\* C27: the lifecycle can be gone through again and again.  A start call
\* that has returned has succeeded unless monitoring was already running,
\* also after earlier starts and stops; and whenever no start or stop is
\* under way, a running machine has exactly one scan job, in its current
\* scheduler, and an idle machine has none.
C27_ReentrantLifecycle ==
    /\ \A t \in Callers :
           (op[t] = "start" /\ pc[t] = "respond")
           => ret[t] \in {"success", "already_running"}
    /\ Quiescent =>
           IF is_running
           THEN Scheduled = {scheduler}
           ELSE Scheduled = {}

====
